---- MODULE Spec2Model ----
(***************************************************************************)
(* Model of pyforge.note: the process-wide display configuration           *)
(* (OUTPUT_MARKDOWN_PATH, the lru_cache of get_display_config) and the     *)
(* display() renderer with its append to the output file.                  *)
(*                                                                         *)
(* A text (Python str) is a sequence of tokens; a path (pathlib.Path) is   *)
(* the sequence of its components; an optional value is a sequence of      *)
(* length 0 (None / absent) or 1.                                          *)
(***************************************************************************)
EXTENDS Integers, Sequences, FiniteSets, TLC

\* Number of display() calls explored in one process.
MaxCalls == 2
\* Longest sequence of plain-text items passed to one display() call.
MaxItems == 2

----------------------------------------------------------------------------
\* class DisplayMode(Enum)
MARKDOWN == "markdown"
STREAMLIT == "streamlit"
PYTHON == "python"
DisplayMode == {MARKDOWN, STREAMLIT, PYTHON}

\* A value that is not a member of DisplayMode, and "no mode given".
BogusMode == "html"
NoMode == "None"

NL == "\n"
SLASH == "/"
DOT == "."

----------------------------------------------------------------------------
\* Texts and paths

\* sep.join(parts)
RECURSIVE Join(_, _)
Join(sep, parts) ==
    IF parts = <<>> THEN <<>>
    ELSE IF Len(parts) = 1 THEN parts[1]
    ELSE parts[1] \o sep \o Join(sep, Tail(parts))

\* str(path): the components joined by "/", "." for the empty path
RECURSIVE PathToStr(_)
PathToStr(p) ==
    IF p = <<>> THEN <<DOT>>
    ELSE IF Len(p) = 1 THEN <<p[1]>>
    ELSE <<p[1], SLASH>> \o PathToStr(Tail(p))

\* Path(text): split at "/", dropping "." components
RECURSIVE StrToPath(_)
StrToPath(s) ==
    IF s = <<>> THEN <<>>
    ELSE IF Head(s) \in {SLASH, DOT} THEN StrToPath(Tail(s))
    ELSE <<Head(s)>> \o StrToPath(Tail(s))

\* path.parent
Parent(p) == IF p = <<>> THEN <<>> ELSE SubSeq(p, 1, Len(p) - 1)

IsPrefix(b, p) == Len(b) <= Len(p) /\ SubSeq(p, 1, Len(b)) = b

\* path.parent and all its ancestors
Ancestors(p) == {SubSeq(p, 1, n) : n \in 0..(Len(p) - 1)}

----------------------------------------------------------------------------
\* The paths, items and contents the calls are made with

DocPath == <<"out", "doc.md">>
FigDocPath == <<"out", "figures", "doc.md">>
AltPath == <<"alt.md">>
FigPath == <<"out", "figures", "x.png">>

\* paths given to set_markdown_display_mode
FlagPaths == {DocPath, FigDocPath}
\* output_path arguments of display (<<>> is None)
PathArgs == {<<>>, <<AltPath>>, <<FigDocPath>>}
\* mode arguments of display
ModeArgs == DisplayMode \cup {NoMode, BogusMode}

Text(s) == [kind |-> "text", text |-> s]
TA == Text(<<"a">>)
TB == Text(<<"b">>)
\* Figure(path, caption, label); label "" stands for no label
FIG == [kind |-> "Figure", path |-> FigPath, caption |-> "Cap", label |-> "fig:1"]

RECURSIVE SeqsUpTo(_, _)
SeqsUpTo(S, n) ==
    IF n = 0 THEN {<<>>}
    ELSE LET shorter == SeqsUpTo(S, n - 1)
         IN shorter \cup {Append(s, x) : s \in shorter, x \in S}

\* content sequences of display: with a Figure, and of plain text only
Contents == {<<>>, <<TA>>, <<TA, TB>>, <<TA, FIG>>}
TextContents == SeqsUpTo({TA, TB}, MaxItems)

----------------------------------------------------------------------------
\* The file system: the content of every regular file, and the directories.
\* The current directory <<>> always exists.

exists(fs, p) == p \in DOMAIN fs.files \/ p \in fs.dirs

\* path.mkdir(parents=True, exist_ok=True)
mkdir_parents(fs, d) == [fs EXCEPT !.dirs = @ \cup {d} \cup Ancestors(d)]

\* path.touch() of a missing file
touch(fs, p) ==
    [fs EXCEPT !.files = [q \in DOMAIN fs.files \cup {p} |->
                             IF q \in DOMAIN fs.files THEN fs.files[q] ELSE <<>>]]

\* the file opened with "w" instead of "a": earlier content is lost
open_truncate(fs, p, s) ==
    IF p \in fs.dirs
    THEN [raised |-> TRUE, error |-> "IsADirectoryError", fs |-> fs]
    ELSE IF Parent(p) \notin fs.dirs
    THEN [raised |-> TRUE, error |-> "FileNotFoundError", fs |-> fs]
    ELSE [raised |-> FALSE, error |-> "",
          fs |-> [fs EXCEPT !.files = [q \in DOMAIN fs.files \cup {p} |->
                     IF q = p THEN s ELSE fs.files[q]]]]

\* with open(p, "a") as f: f.write(s)
open_append(fs, p, s) ==
    IF p \in fs.dirs
    THEN [raised |-> TRUE, error |-> "IsADirectoryError", fs |-> fs]
    ELSE IF Parent(p) \notin fs.dirs
    THEN [raised |-> TRUE, error |-> "FileNotFoundError", fs |-> fs]
    ELSE [raised |-> FALSE, error |-> "",
          fs |-> [fs EXCEPT !.files = [q \in DOMAIN fs.files \cup {p} |->
                     IF q = p
                     THEN (IF p \in DOMAIN fs.files THEN fs.files[p] ELSE <<>>) \o s
                     ELSE fs.files[q]]]]

----------------------------------------------------------------------------
\* Mode resolution

\* os.getenv(OUTPUT_MARKDOWN_PATH) is not None: the empty string counts as set
getenv_present(environ) == environ # <<>>

\* bool(os.getenv(OUTPUT_MARKDOWN_PATH)): set, and not the empty string
getenv_truthy(environ) == environ # <<>> /\ environ[1] # <<>>

\* the body of get_display_config, run when nothing is cached
resolve_display_config(environ, runtime_exists, fs) ==
    IF getenv_truthy(environ)
    THEN LET output_path == StrToPath(environ[1])
         IN [config |-> [mode |-> MARKDOWN, output_path |-> <<output_path>>],
             fs |-> IF ~exists(fs, output_path)
                    THEN touch(mkdir_parents(fs, Parent(output_path)), output_path)
                    ELSE fs]
    ELSE IF runtime_exists
    THEN [config |-> [mode |-> STREAMLIT, output_path |-> <<>>], fs |-> fs]
    ELSE [config |-> [mode |-> PYTHON, output_path |-> <<>>], fs |-> fs]

\* get_display_config without @lru_cache: every call resolves again
get_display_config_uncached(cached, environ, runtime_exists, fs) ==
    LET r == resolve_display_config(environ, runtime_exists, fs)
    IN [config |-> r.config, cached |-> <<r.config>>, fs |-> r.fs,
        resolved |-> TRUE]

\* @lru_cache on a function of no arguments: the first result is kept
get_display_config(cached, environ, runtime_exists, fs) ==
    IF cached # <<>>
    THEN [config |-> cached[1], cached |-> cached, fs |-> fs, resolved |-> FALSE]
    ELSE LET r == resolve_display_config(environ, runtime_exists, fs)
         IN [config |-> r.config, cached |-> <<r.config>>, fs |-> r.fs,
             resolved |-> TRUE]

\* st.runtime.exists() as get_display_config calls it: no handler surrounds
\* the call, so what it raises leaves get_display_config
st_runtime_exists(runtime_exists, fails) ==
    [raised |-> fails, value |-> runtime_exists]

\* get_display_config on a host whose detection may raise.  The call is
\* reached only when nothing is cached and the flag is not truthy; a raised
\* call caches nothing.
get_display_config_detect(cached, environ, runtime_exists, fails, fs) ==
    LET reached == cached = <<>> /\ ~getenv_truthy(environ)
        e == st_runtime_exists(runtime_exists, fails)
    IN IF reached /\ e.raised
       THEN [raised |-> TRUE, reached |-> TRUE, config |-> <<>>,
             cached |-> cached, fs |-> fs, resolved |-> FALSE]
       ELSE LET g == get_display_config(cached, environ, e.value, fs)
            IN [raised |-> FALSE, reached |-> reached, config |-> <<g.config>>,
                cached |-> g.cached, fs |-> g.fs, resolved |-> g.resolved]

----------------------------------------------------------------------------
\* Displayables

label_text(label) == IF label # "" THEN <<"{#", label, "}">> ELSE <<>>

\* the path written as stored, not relative to the output directory
Figure_display_markdown_stored(item, environ) ==
    IF environ = <<>>
    THEN [raised |-> TRUE, error |-> "KeyError", text |-> <<>>]
    ELSE [raised |-> FALSE, error |-> "",
          text |-> <<"![", item.caption, "](">> \o PathToStr(item.path)
                   \o <<")">> \o label_text(item.label)]

\* Figure.display_markdown
Figure_display_markdown(item, environ) ==
    IF environ = <<>>
    THEN [raised |-> TRUE, error |-> "KeyError", text |-> <<>>]
    ELSE LET base == Parent(StrToPath(environ[1]))
         IN IF ~IsPrefix(base, item.path)
            THEN [raised |-> TRUE, error |-> "ValueError", text |-> <<>>]
            ELSE [raised |-> FALSE, error |-> "",
                  text |-> <<"![", item.caption, "](">>
                           \o PathToStr(SubSeq(item.path, Len(base) + 1, Len(item.path)))
                           \o <<")">> \o label_text(item.label)]

\* the number of "#" tokens of a text: text.count("#")
RECURSIVE count_hash(_)
count_hash(text) ==
    IF text = <<>> THEN 0
    ELSE (IF Head(text) = "#" THEN 1 ELSE 0) + count_hash(Tail(text))

\* Title.level
Title_level(item) ==
    IF item.text # <<>> /\ Head(item.text) = "#" THEN count_hash(item.text) ELSE 0

\* Title.display_markdown
Title_display_markdown(item) ==
    [raised |-> FALSE, error |-> "",
     text |-> item.text \o <<" ">> \o label_text(item.label)]

\* the date line written whether or not a date is given
DocumentConfig_display_markdown_dated(item) ==
    [raised |-> FALSE, error |-> "",
     text |-> Join(<<NL>>,
                 << <<"---">>,
                    <<"title: ", item.title>>,
                    <<"author: ", item.author>>,
                    <<"date: ", item.date>>,
                    IF item.bib_path # <<>>
                    THEN <<"bibliography: ">> \o PathToStr(item.bib_path[1])
                    ELSE <<>>,
                    <<"---">>,
                    <<NL>> >>)]

\* DocumentConfig.display_markdown; date "" and bib_path <<>> stand for None
DocumentConfig_display_markdown(item) ==
    [raised |-> FALSE, error |-> "",
     text |-> Join(<<NL>>,
                 << <<"---">>,
                    <<"title: ", item.title>>,
                    <<"author: ", item.author>>,
                    IF item.date # "" THEN <<"date: ", item.date>> ELSE <<>>,
                    IF item.bib_path # <<>>
                    THEN <<"bibliography: ">> \o PathToStr(item.bib_path[1])
                    ELSE <<>>,
                    <<"---">>,
                    <<NL>> >>)]

\* item.display_markdown()
display_markdown(item, environ) ==
    CASE item.kind = "Figure" -> Figure_display_markdown(item, environ)
      [] item.kind = "Title" -> Title_display_markdown(item)
      [] item.kind = "DocumentConfig" -> DocumentConfig_display_markdown(item)

\* item.display_streamlit(): the widgets it emits to the host
display_streamlit(item) ==
    CASE item.kind = "Figure" ->
            <<[widget |-> "image", arg |-> PathToStr(item.path) \o <<item.caption>>]>>
      [] item.kind = "Title" ->
            <<[widget |-> "markdown", arg |-> item.text]>>
      [] item.kind = "DocumentConfig" ->
            <<[widget |-> "markdown", arg |-> <<"# ", item.title>>],
              [widget |-> "markdown", arg |-> <<"**Author:** ", item.author>>]>>
            \o (IF item.date # ""
                THEN <<[widget |-> "markdown", arg |-> <<"**Date:** ", item.date>>]>>
                ELSE <<>>)
            \o (IF item.bib_path # <<>>
                THEN <<[widget |-> "markdown",
                        arg |-> <<"**Bibliography:** ">> \o PathToStr(item.bib_path[1])]>>
                ELSE <<>>)

\* MultiDisplayer.display(mode)
MultiDisplayer_display(item, mode, environ) ==
    IF mode = MARKDOWN
    THEN LET r == display_markdown(item, environ)
         IN [raised |-> r.raised, error |-> r.error, text |-> r.text, emitted |-> <<>>]
    ELSE IF mode = STREAMLIT
    THEN [raised |-> FALSE, error |-> "", text |-> <<>>,
          emitted |-> display_streamlit(item)]
    ELSE [raised |-> TRUE, error |-> "ValueError", text |-> <<>>, emitted |-> <<>>]

\* Path.cwd(), written from its parent directory "..", which always exists
Cwd == <<"..", "cwd">>

is_dir(fs, d) == d \in fs.dirs \/ d = Parent(Cwd)

\* Figure.from_matplotlib(fig, filename, caption, label).  A Path is never
\* falsy, so "if not output_path: raise ValueError" is never taken.
from_matplotlib(environ, fs, filename, caption, label) ==
    LET output_path == IF environ # <<>> THEN StrToPath(environ[1]) ELSE Cwd
        figures_dir == Parent(output_path) \o <<"figures">>
        filepath == figures_dir \o <<filename>>
    IN IF figures_dir \in DOMAIN fs.files
       THEN [raised |-> TRUE, error |-> "FileExistsError", fs |-> fs, figure |-> <<>>]
       ELSE IF ~is_dir(fs, figures_dir) /\ ~is_dir(fs, Parent(figures_dir))
       THEN [raised |-> TRUE, error |-> "FileNotFoundError", fs |-> fs, figure |-> <<>>]
       ELSE [raised |-> FALSE, error |-> "",
             fs |-> [dirs |-> fs.dirs \cup {figures_dir},
                     files |-> [q \in DOMAIN fs.files \cup {filepath} |->
                                   IF q = filepath THEN <<"image">> ELSE fs.files[q]]],
             figure |-> <<[kind |-> "Figure", path |-> filepath,
                           caption |-> caption, label |-> label]>>]

----------------------------------------------------------------------------
\* display(*content, mode=None, output_path=None)

\* the STREAMLIT branch lost: every known mode builds and writes text
is_text_mode_any(display_mode) == display_mode \in DisplayMode

\* display_mode == DisplayMode.MARKDOWN or display_mode == DisplayMode.PYTHON
is_text_mode(display_mode) == display_mode \in {MARKDOWN, PYTHON}

NoRender ==
    [raised |-> FALSE, error |-> "", result |-> <<>>, emitted |-> <<>>,
     md_calls |-> 0, st_calls |-> 0]

\* for item in content: ...  (the loop stops at the first item that raises)
RECURSIVE render_items(_, _, _, _)
render_items(content, display_mode, environ, acc) ==
    IF content = <<>> THEN acc
    ELSE LET item == Head(content)
         IN IF item.kind # "text"
            THEN IF is_text_mode(display_mode)
                 THEN LET r == display_markdown(item, environ)
                      IN IF r.raised
                         THEN [acc EXCEPT !.raised = TRUE, !.error = r.error,
                                          !.md_calls = @ + 1]
                         ELSE render_items(Tail(content), display_mode, environ,
                                  [acc EXCEPT !.result = @ \o <<r.text, <<NL>>>>,
                                              !.md_calls = @ + 1])
                 ELSE render_items(Tail(content), display_mode, environ,
                          [acc EXCEPT !.emitted = @ \o display_streamlit(item),
                                      !.st_calls = @ + 1])
            ELSE IF is_text_mode(display_mode)
                 THEN render_items(Tail(content), display_mode, environ,
                          [acc EXCEPT !.result = @ \o <<item.text, <<NL>>>>])
                 ELSE render_items(Tail(content), display_mode, environ,
                          [acc EXCEPT !.emitted =
                               Append(@, [widget |-> "markdown", arg |-> item.text])])

\* "".join(result): the separator lost
output_string_unseparated(result) == Join(<<>>, result)

\* output_string = "\n\n".join(result)
output_string(result) == Join(<<NL, NL>>, result)

\* the write moved into a finally: block, reached when an item raised too
write_output_finally(r, display_mode, out_path, fs) ==
    IF is_text_mode(display_mode) /\ out_path # <<>>
    THEN open_append(fs, out_path[1], output_string(r.result))
    ELSE [raised |-> FALSE, error |-> "", fs |-> fs]

\* the write after the loop; it is not reached when an item raised
write_output(r, display_mode, out_path, fs) ==
    IF ~r.raised /\ is_text_mode(display_mode) /\ out_path # <<>>
    THEN open_append(fs, out_path[1], output_string(r.result))
    ELSE [raised |-> FALSE, error |-> "", fs |-> fs]

\* the record of one call: what it was given, what it did, what came back
NoCall ==
    [op |-> "", content |-> <<>>, mode_arg |-> NoMode, path_arg |-> <<>>,
     config |-> <<>>, resolved |-> FALSE, display_mode |-> NoMode,
     out_path |-> <<>>, outcome |-> "", error |-> "", result |-> <<>>,
     emitted |-> <<>>, md_calls |-> 0, st_calls |-> 0,
     value |-> <<>>, ret |-> <<>>, detection |-> ""]

\* the configured output path preferred to the one the caller passes
display_configured_first(content, mode, output_path, cached, environ, runtime_exists, fs) ==
    LET g == get_display_config(cached, environ, runtime_exists, fs)
        display_mode == IF mode # NoMode THEN mode ELSE g.config.mode
        out_path == IF g.config.output_path # <<>> THEN g.config.output_path
                    ELSE output_path
        r == render_items(content, display_mode, environ, NoRender)
        w == write_output(r, display_mode, out_path, g.fs)
        call == [NoCall EXCEPT !.op = "display", !.content = content,
                    !.mode_arg = mode, !.path_arg = output_path,
                    !.config = <<g.config>>, !.resolved = g.resolved,
                    !.display_mode = display_mode, !.out_path = out_path,
                    !.emitted = r.emitted, !.md_calls = r.md_calls,
                    !.st_calls = r.st_calls]
    IN [cached |-> g.cached, fs |-> w.fs,
        call |-> IF r.raised
                 THEN [call EXCEPT !.outcome = "raised", !.error = r.error]
                 ELSE IF w.raised
                 THEN [call EXCEPT !.outcome = "raised", !.error = w.error]
                 ELSE [call EXCEPT !.outcome = "returned",
                          !.result = IF is_text_mode(display_mode)
                                     THEN output_string(r.result) ELSE <<>>]]

\* the whole call: the new cache and file system, and the call's record
display(content, mode, output_path, cached, environ, runtime_exists, fs) ==
    LET g == get_display_config(cached, environ, runtime_exists, fs)
        display_mode == IF mode # NoMode THEN mode ELSE g.config.mode
        out_path == IF output_path # <<>> THEN output_path ELSE g.config.output_path
        r == render_items(content, display_mode, environ, NoRender)
        w == write_output(r, display_mode, out_path, g.fs)
        call == [NoCall EXCEPT !.op = "display", !.content = content,
                    !.mode_arg = mode, !.path_arg = output_path,
                    !.config = <<g.config>>, !.resolved = g.resolved,
                    !.display_mode = display_mode, !.out_path = out_path,
                    !.emitted = r.emitted, !.md_calls = r.md_calls,
                    !.st_calls = r.st_calls]
    IN [cached |-> g.cached, fs |-> w.fs,
        call |-> IF r.raised
                 THEN [call EXCEPT !.outcome = "raised", !.error = r.error]
                 ELSE IF w.raised
                 THEN [call EXCEPT !.outcome = "raised", !.error = w.error]
                 ELSE [call EXCEPT !.outcome = "returned",
                          !.result = IF is_text_mode(display_mode)
                                     THEN output_string(r.result) ELSE <<>>]]

----------------------------------------------------------------------------
VARIABLES
    environ,        \* os.environ.get(OUTPUT_MARKDOWN_PATH): <<>> or <<text>>
    cached,         \* the lru_cache of get_display_config: <<>> or <<config>>
    runtime_exists, \* st.runtime.exists()
    fs,             \* the file system
    ncalls,         \* display() calls made so far
    last,           \* the record of the most recent call
    first_config,   \* history: what the first get_display_config returned
    flag_by,        \* history: who last wrote the flag
    fs0,            \* history: the file system the process started with
    log,            \* history: <<path, returned text>> of the calls that wrote
    py_first,       \* history: the first call that returned in PYTHON mode
    unoverridden,   \* history: the cache, had no call with a mode override been made
    systems         \* the System objects: id -> fields, children as a list of ids

vars == <<environ, cached, runtime_exists, fs, ncalls, last, first_config,
          flag_by, fs0, log, py_first, unoverridden, systems>>

OldFS == [files |-> [q \in {DocPath} |-> <<"old", NL>>], dirs |-> {<<>>, <<"out">>}]

Init ==
    /\ environ \in {<<>>, <<<<>>>>, <<PathToStr(DocPath)>>}
    /\ cached = <<>>
    /\ runtime_exists \in BOOLEAN
    /\ fs = OldFS
    /\ ncalls = 0
    /\ last = NoCall
    /\ first_config = <<>>
    /\ flag_by = "inherited"
    /\ fs0 = fs
    /\ log = <<>>
    /\ py_first = <<>>
    /\ unoverridden = <<>>
    /\ systems = <<>>

\* set_markdown_display_mode(output_path)
SetMarkdownDisplayMode(output_path) ==
    /\ environ' = <<PathToStr(output_path)>>
    /\ flag_by' = "set"
    /\ last' = [NoCall EXCEPT !.op = "set_markdown_display_mode",
                              !.path_arg = <<output_path>>]
    /\ UNCHANGED <<cached, runtime_exists, fs, ncalls, first_config, fs0, log,
                   py_first, unoverridden, systems>>

\* unset_markdown_display_mode()
UnsetMarkdownDisplayMode ==
    /\ environ' = <<>>
    /\ flag_by' = "unset"
    /\ last' = [NoCall EXCEPT !.op = "unset_markdown_display_mode"]
    /\ UNCHANGED <<cached, runtime_exists, fs, ncalls, first_config, fs0, log,
                   py_first, unoverridden, systems>>

\* a direct call of get_display_config()
GetDisplayConfigCall ==
    LET g == get_display_config(cached, environ, runtime_exists, fs)
    IN /\ cached' = g.cached
       /\ fs' = g.fs
       /\ last' = [NoCall EXCEPT !.op = "get_display_config",
                      !.config = <<g.config>>, !.resolved = g.resolved,
                      !.outcome = "returned"]
       /\ first_config' = IF first_config = <<>> THEN <<g.config>> ELSE first_config
       /\ UNCHANGED <<environ, runtime_exists, ncalls, flag_by, fs0, log, py_first,
                      systems>>

GetDisplayConfig == GetDisplayConfigCall /\ UNCHANGED unoverridden

\* a call of display(*content, mode=mode, output_path=output_path)
DisplayCall(content, mode, output_path) ==
    /\ ncalls < MaxCalls
    /\ LET d == display(content, mode, output_path, cached, environ,
                        runtime_exists, fs)
           c == d.call
           wrote == c.outcome = "returned" /\ is_text_mode(c.display_mode)
                    /\ c.out_path # <<>>
       IN /\ cached' = d.cached
          /\ fs' = d.fs
          /\ last' = c
          /\ first_config' = IF first_config = <<>> THEN c.config ELSE first_config
          /\ log' = IF wrote THEN Append(log, <<c.out_path[1], c.result>>) ELSE log
          /\ py_first' = IF py_first = <<>> /\ c.outcome = "returned"
                            /\ c.display_mode = PYTHON
                         THEN <<[content |-> content, result |-> c.result]>>
                         ELSE py_first
    /\ ncalls' = ncalls + 1
    /\ UNCHANGED <<environ, runtime_exists, flag_by, fs0, systems>>

Display(content, mode, output_path) ==
    DisplayCall(content, mode, output_path) /\ UNCHANGED unoverridden

Next ==
    \/ \E p \in FlagPaths : SetMarkdownDisplayMode(p)
    \/ UnsetMarkdownDisplayMode
    \/ GetDisplayConfig
    \/ \E content \in Contents, mode \in ModeArgs, output_path \in PathArgs :
           Display(content, mode, output_path)

Spec == Init /\ [][Next]_vars

\* The process of a document script: only the public calls are made
NextApi ==
    \/ \E p \in FlagPaths : SetMarkdownDisplayMode(p)
    \/ UnsetMarkdownDisplayMode
    \/ \E content \in Contents, mode \in ModeArgs, output_path \in PathArgs :
           Display(content, mode, output_path)

SpecApi == Init /\ [][NextApi]_vars

\* The same process, display being given every sequence of plain-text items
NextText ==
    \/ \E p \in FlagPaths : SetMarkdownDisplayMode(p)
    \/ UnsetMarkdownDisplayMode
    \/ \E content \in TextContents, mode \in {NoMode, MARKDOWN, PYTHON} :
           Display(content, mode, <<>>)

SpecText == Init /\ [][NextText]_vars

----------------------------------------------------------------------------
\* Direct calls on Displayables.  last.value is the object at hand.

FigurePaths == {FigPath, <<"test", "path.png">>}
Labels == {"", "fig:1"}
\* "## Section", "# C#", "Plain", "a #"
TitleTexts == {<<"#", "#", " ", "Section">>, <<"#", " ", "C", "#">>, <<"Plain">>,
               <<"a", " ", "#">>}
Dates == {"", "D"}
BibPaths == {<<>>, <<<<"refs.bib">>>>}

Figures == {[kind |-> "Figure", path |-> p, caption |-> "Cap", label |-> l] :
               p \in FigurePaths, l \in Labels}
Titles == {[kind |-> "Title", text |-> t, label |-> l] : t \in TitleTexts, l \in Labels}
DocumentConfigs == {[kind |-> "DocumentConfig", title |-> "T", author |-> "A",
                     date |-> d, bib_path |-> b] : d \in Dates, b \in BibPaths}
Displayables == Figures \cup Titles \cup DocumentConfigs

\* what a direct call on a Displayable leaves alone
ObjectFrame ==
    UNCHANGED <<environ, cached, runtime_exists, fs, ncalls, first_config, flag_by,
                fs0, log, py_first, unoverridden, systems>>

\* Figure(...), Title(...), DocumentConfig(...): __init__ stores its arguments
Construct(d) ==
    /\ last' = [NoCall EXCEPT !.op = d.kind, !.outcome = "returned",
                              !.value = <<d>>, !.ret = <<d>>]
    /\ ObjectFrame

\* d.display_markdown()
CallDisplayMarkdown ==
    /\ last.value # <<>>
    /\ LET d == last.value[1]
           r == display_markdown(d, environ)
       IN last' = [NoCall EXCEPT !.op = "display_markdown", !.value = <<d>>,
                      !.outcome = IF r.raised THEN "raised" ELSE "returned",
                      !.error = r.error, !.result = r.text]
    /\ ObjectFrame

\* d.display(mode)
CallDisplay(mode) ==
    /\ last.value # <<>>
    /\ LET d == last.value[1]
           r == MultiDisplayer_display(d, mode, environ)
       IN last' = [NoCall EXCEPT !.op = "MultiDisplayer.display", !.value = <<d>>,
                      !.mode_arg = mode,
                      !.outcome = IF r.raised THEN "raised" ELSE "returned",
                      !.error = r.error, !.result = r.text, !.emitted = r.emitted]
    /\ ObjectFrame

\* title.level
CallLevel ==
    /\ last.value # <<>>
    /\ last.value[1].kind = "Title"
    /\ last' = [NoCall EXCEPT !.op = "Title.level", !.value = last.value,
                   !.outcome = "returned", !.ret = <<Title_level(last.value[1])>>]
    /\ ObjectFrame

\* Figure.from_matplotlib(fig, filename, caption, label)
FromMatplotlib(filename, label) ==
    LET r == from_matplotlib(environ, fs, filename, "Cap", label)
    IN /\ fs' = r.fs
       /\ last' = [NoCall EXCEPT !.op = "Figure.from_matplotlib",
                      !.outcome = IF r.raised THEN "raised" ELSE "returned",
                      !.error = r.error, !.value = r.figure, !.ret = r.figure]
       /\ UNCHANGED <<environ, cached, runtime_exists, ncalls, first_config,
                      flag_by, fs0, log, py_first, unoverridden, systems>>

NextObjects ==
    \/ \E p \in FlagPaths : SetMarkdownDisplayMode(p)
    \/ UnsetMarkdownDisplayMode
    \/ \E d \in Displayables : Construct(d)
    \/ CallDisplayMarkdown
    \/ \E mode \in DisplayMode : CallDisplay(mode)
    \/ CallLevel
    \/ \E label \in Labels : FromMatplotlib("x.png", label)

SpecObjects == Init /\ [][NextObjects]_vars

\* The two ways of rendering a Displayable under a mode: d.display(mode) and
\* display(d, mode=mode)
NextDispatch ==
    \/ \E p \in FlagPaths : SetMarkdownDisplayMode(p)
    \/ UnsetMarkdownDisplayMode
    \/ \E d \in {FIG, [kind |-> "Title", text |-> <<"#", " ", "T">>, label |-> ""]} :
           Construct(d)
    \/ \E mode \in DisplayMode : CallDisplay(mode)
    \/ \E mode \in DisplayMode : Display(<<TA, FIG>>, mode, <<>>)

SpecDispatch == Init /\ [][NextDispatch]_vars

----------------------------------------------------------------------------
\* display with the history of what the cache would hold had no call passed a
\* mode: a call with mode=None resolves in that history too
DisplayTracked(content, mode, output_path) ==
    /\ DisplayCall(content, mode, output_path)
    /\ unoverridden' =
           IF mode = NoMode
           THEN get_display_config(unoverridden, environ, runtime_exists, fs).cached
           ELSE unoverridden

NextOverride ==
    \/ \E p \in FlagPaths : SetMarkdownDisplayMode(p)
    \/ UnsetMarkdownDisplayMode
    \/ \E mode \in ModeArgs : DisplayTracked(<<TA>>, mode, <<>>)

SpecOverride == Init /\ [][NextOverride]_vars

----------------------------------------------------------------------------
\* get_display_config() on a host whose st.runtime.exists() may raise
GetDisplayConfigDetect(fails) ==
    LET g == get_display_config_detect(cached, environ, runtime_exists, fails, fs)
    IN /\ cached' = g.cached
       /\ fs' = g.fs
       /\ last' = [NoCall EXCEPT !.op = "get_display_config",
                      !.config = g.config, !.resolved = g.resolved,
                      !.outcome = IF g.raised THEN "raised" ELSE "returned",
                      !.error = IF g.raised THEN "Exception" ELSE "",
                      !.detection = IF ~g.reached THEN "skipped"
                                    ELSE IF g.raised THEN "failed" ELSE "done"]
       /\ first_config' = IF first_config = <<>> THEN g.config ELSE first_config
       /\ UNCHANGED <<environ, runtime_exists, ncalls, flag_by, fs0, log, py_first,
                      unoverridden, systems>>

\* display(*content) on such a host: what get_display_config raises leaves
\* display before anything is rendered or written
DisplayDetect(content, fails) ==
    IF get_display_config_detect(cached, environ, runtime_exists, fails, fs).raised
    THEN /\ ncalls < MaxCalls
         /\ ncalls' = ncalls + 1
         /\ last' = [NoCall EXCEPT !.op = "display", !.content = content,
                        !.outcome = "raised", !.error = "Exception",
                        !.detection = "failed"]
         /\ UNCHANGED <<environ, cached, runtime_exists, fs, first_config, flag_by,
                        fs0, log, py_first, unoverridden, systems>>
    ELSE Display(content, NoMode, <<>>)

NextDetect ==
    \/ \E p \in FlagPaths : SetMarkdownDisplayMode(p)
    \/ UnsetMarkdownDisplayMode
    \/ \E fails \in BOOLEAN : GetDisplayConfigDetect(fails)
    \/ \E fails \in BOOLEAN : DisplayDetect(<<TA>>, fails)

SpecDetect == Init /\ [][NextDetect]_vars

----------------------------------------------------------------------------
\* Systems (systems.py).  The System objects live in a heap, systems, indexed
\* by identity; children is None (<<>>) or a list of identities (<<list>>),
\* requirements and functions likewise None or a list, parameters None or a
\* Parameters object given by its <<key, value>> fields.

MaxAdds == 2

SysIds == {1, 2, 3}
SysNames == <<"A", "B", "C">>
P1 == << <<"k", "v">> >>
R1 == [name |-> "R1", description |-> "D1"]
F1 == [name |-> "F1", description |-> "DF1", parameters |-> <<>>]

\* Parameters.display: a table of the fields, "" when there are none
Parameters_display(params) ==
    IF params = <<>> THEN <<>>
    ELSE Join(<<NL>>,
              << <<"| Parameter | Value |">>, <<"| --- | --- |">> >>
              \o [i \in 1..Len(params) |->
                     <<"| ", params[i][1], " | ", params[i][2], " |">>])

\* Requirement.display
Requirement_display(req) == <<"- **", req.name, "**: ", req.description>>

\* Function.display
Function_display(func) ==
    <<"### Function: ", func.name, NL, NL>>
    \o (IF func.description # "" THEN <<func.description>> ELSE <<>>)
    \o (IF func.parameters # <<>>
        THEN <<NL, "**Parameters:**", NL>> \o Parameters_display(func.parameters[1])
        ELSE <<>>)

\* the entries of md that System.display writes before the children
own_sections(s) ==
    << <<"# System: ", s.name>>, <<>>,
       IF s.description # "" THEN <<s.description>> ELSE <<>> >>
    \o (IF s.parameters # <<>>
        THEN << <<NL, "## Parameters">>, Parameters_display(s.parameters[1]) >>
        ELSE <<>>)
    \o (IF s.requirements # <<>> /\ s.requirements[1] # <<>>
        THEN << <<NL, "## Requirements">> >>
             \o [i \in 1..Len(s.requirements[1]) |->
                    Requirement_display(s.requirements[1][i])]
        ELSE <<>>)
    \o (IF s.functions # <<>> /\ s.functions[1] # <<>>
        THEN << <<NL, "## Functions">> >>
             \o [i \in 1..Len(s.functions[1]) |-> Function_display(s.functions[1][i])]
        ELSE <<>>)

\* System.display.  stack holds the systems whose display is on the call
\* stack: a child that is on it is displayed again without end, which Python
\* ends with RecursionError.
RECURSIVE System_display(_, _, _)
System_display(heap, id, stack) ==
    IF id \in stack
    THEN [raised |-> TRUE, error |-> "RecursionError", text |-> <<>>]
    ELSE LET s == heap[id]
             kids == IF s.children # <<>> THEN s.children[1] ELSE <<>>
             shown == [i \in 1..Len(kids) |->
                          System_display(heap, kids[i], stack \cup {id})]
         IN IF \E i \in 1..Len(kids) : shown[i].raised
            THEN [raised |-> TRUE, error |-> "RecursionError", text |-> <<>>]
            ELSE [raised |-> FALSE, error |-> "",
                  text |-> Join(<<NL>>,
                               own_sections(s)
                               \o (IF kids # <<>>
                                   THEN << <<NL, "## Subsystems">> >>
                                        \o [i \in 1..Len(kids) |-> shown[i].text]
                                   ELSE <<>>))]

\* System.add_child on the heap
add_child(heap, parent, child) ==
    [heap EXCEPT ![parent].children =
        IF @ = <<>> THEN << <<child>> >> ELSE <<Append(@[1], child)>>]

\* the number of add_child calls made: children start as None
RECURSIVE SumLen(_, _)
SumLen(heap, ids) ==
    IF ids = {} THEN 0
    ELSE LET i == CHOOSE i \in ids : TRUE
         IN (IF heap[i].children # <<>> THEN Len(heap[i].children[1]) ELSE 0)
            + SumLen(heap, ids \ {i})

\* System(name=..., description=..., ...) without children
NewSystem(id, description, parameters, requirements, functions) ==
    [name |-> SysNames[id], description |-> description, parameters |-> parameters,
     requirements |-> requirements, functions |-> functions, children |-> <<>>]

InitSystems ==
    /\ environ = <<>>
    /\ cached = <<>>
    /\ runtime_exists = FALSE
    /\ fs = OldFS
    /\ ncalls = 0
    /\ last = NoCall
    /\ first_config = <<>>
    /\ flag_by = "inherited"
    /\ fs0 = fs
    /\ log = <<>>
    /\ py_first = <<>>
    /\ unoverridden = <<>>
    /\ \E parameters \in {<<>>, <<P1>>},
          requirements \in {<<>>, << <<>> >>, << <<R1>> >>},
          functions \in {<<>>, << <<F1>> >>} :
           systems = [id \in SysIds |->
                         IF id = 1
                         THEN NewSystem(1, "desc", parameters, requirements, functions)
                         ELSE NewSystem(id, "", <<>>, <<>>, <<>>)]

SystemFrame ==
    UNCHANGED <<environ, cached, runtime_exists, fs, ncalls, first_config, flag_by,
                fs0, log, py_first, unoverridden>>

\* parent.add_child(child)
AddChild(parent, child) ==
    /\ SumLen(systems, SysIds) < MaxAdds
    /\ systems' = add_child(systems, parent, child)
    /\ last' = [NoCall EXCEPT !.op = "System.add_child", !.outcome = "returned",
                   !.ret = <<parent, child>>]
    /\ SystemFrame

\* system.display()
DisplaySystem(id) ==
    LET r == System_display(systems, id, {})
    IN /\ last' = [NoCall EXCEPT !.op = "System.display", !.ret = <<id>>,
                      !.outcome = IF r.raised THEN "raised" ELSE "returned",
                      !.error = r.error, !.result = r.text]
       /\ UNCHANGED systems
       /\ SystemFrame

NextSystems ==
    \/ \E parent \in SysIds, child \in SysIds : AddChild(parent, child)
    \/ \E id \in SysIds : DisplaySystem(id)

SpecSystems == InitSystems /\ [][NextSystems]_vars

----------------------------------------------------------------------------
\* The command line (cli.py): `pyforge markdown doc_path [output_path]`, run
\* several times in one process.  A document is a script that calls display.

DocA == [path |-> <<"out", "a.py">>, content |-> <<TA>>]
DocB == [path |-> <<"out", "b.py">>, content |-> <<TB>>]
DocAB == [path |-> <<"out", "ab.py">>, content |-> <<TA, TB>>]
Docs == {DocA, DocB, DocAB}
PA == <<"out", "pa.md">>
PB == <<"out", "pb.md">>
OutputPathArgs == {<<>>, <<PA>>, <<PB>>}

\* doc_path.with_suffix(".md")
with_suffix_md(p) ==
    CASE p = <<"out", "a.py">> -> <<"out", "a.md">>
      [] p = <<"out", "b.py">> -> <<"out", "b.md">>
      [] p = <<"out", "ab.py">> -> <<"out", "ab.md">>

\* Path.write_text: the file is created or truncated
write_text(files, p, text) ==
    [files EXCEPT !.files = [q \in DOMAIN files.files \cup {p} |->
                                IF q = p THEN text ELSE files.files[q]]]

\* markdown(doc_path, output_path): the whole command
markdown(doc, output_path, cache, files, host) ==
    LET defaulted == output_path = <<>>
        out == IF defaulted THEN with_suffix_md(doc.path) ELSE output_path[1]
        fs1 == IF defaulted THEN write_text(files, out, <<>>) ELSE files
        flag == <<PathToStr(out)>>
        d == display(doc.content, NoMode, <<>>, cache, flag, host, fs1)
    IN [cached |-> d.cached, fs |-> d.fs, environ |-> <<>>, out |-> out,
        call |-> d.call]

Markdown(doc, output_path) ==
    /\ ncalls < MaxCalls
    /\ LET m == markdown(doc, output_path, cached, fs, runtime_exists)
           c == m.call
       IN /\ cached' = m.cached
          /\ fs' = m.fs
          /\ environ' = m.environ
          /\ last' = [c EXCEPT !.op = "markdown", !.path_arg = <<m.out>>]
          /\ first_config' = IF first_config = <<>> THEN c.config ELSE first_config
          /\ log' = IF c.outcome = "returned" /\ c.out_path # <<>>
                    THEN Append(log, <<c.out_path[1], c.result>>) ELSE log
    /\ ncalls' = ncalls + 1
    /\ flag_by' = "unset"
    /\ UNCHANGED <<runtime_exists, fs0, py_first, unoverridden, systems>>

NextCli == \E doc \in Docs, output_path \in OutputPathArgs : Markdown(doc, output_path)

SpecCli == Init /\ [][NextCli]_vars

----------------------------------------------------------------------------
\* Helpers of the properties

\* the last call went through get_display_config
Consulted == last.op \in {"get_display_config", "display"}

\* the text of a path's file, "" for a missing file
ContentOf(f, p) == IF p \in DOMAIN f.files THEN f.files[p] ELSE <<>>

\* from f to g no file lost or changed content, and a new file is empty
NothingWritten(f, g) ==
    /\ \A p \in DOMAIN f.files : p \in DOMAIN g.files /\ g.files[p] = f.files[p]
    /\ \A p \in DOMAIN g.files : p \notin DOMAIN f.files => g.files[p] = <<>>

\* the texts the logged calls returned for path p, in call order
RECURSIVE ReturnedFor(_, _)
ReturnedFor(lg, p) ==
    IF lg = <<>> THEN <<>>
    ELSE (IF Head(lg)[1] = p THEN Head(lg)[2] ELSE <<>>) \o ReturnedFor(Tail(lg), p)

----------------------------------------------------------------------------
\* C1 (as stated): a resolution gives MARKDOWN, with the flag's value as output
\* path, exactly when OUTPUT_MARKDOWN_PATH is present in the environment, the
\* empty string included.
C1_PresenceSelectsMarkdown ==
    (Consulted /\ last.resolved) =>
        /\ last.config[1].mode = MARKDOWN <=> environ # <<>>
        /\ environ # <<>> => last.config[1].output_path = <<StrToPath(environ[1])>>

\* C1 (amended): a resolution gives MARKDOWN with the flag's value as output
\* path exactly when OUTPUT_MARKDOWN_PATH is present and not the empty string;
\* otherwise STREAMLIT when the interactive host runs; otherwise PYTHON with no
\* output path. A get_display_config call that does not resolve to MARKDOWN
\* leaves the file system as it was.
C1_ResolutionPriority ==
    [][ /\ (last'.op \in {"get_display_config", "display"} /\ last'.resolved) =>
              last'.config[1] =
                  IF environ # <<>> /\ environ[1] # <<>>
                  THEN [mode |-> MARKDOWN, output_path |-> <<StrToPath(environ[1])>>]
                  ELSE IF runtime_exists
                  THEN [mode |-> STREAMLIT, output_path |-> <<>>]
                  ELSE [mode |-> PYTHON, output_path |-> <<>>]
        /\ (last'.op = "get_display_config" /\ last'.resolved
               /\ (environ = <<>> \/ environ[1] = <<>>)) => fs' = fs
      ]_vars

\* a get_display_config call resolved to MARKDOWN and created the missing file
C1_Witness ==
    /\ last.op = "get_display_config" /\ last.resolved
    /\ last.config[1] = [mode |-> MARKDOWN, output_path |-> <<FigDocPath>>]
    /\ FigDocPath \in DOMAIN fs.files /\ FigDocPath \notin DOMAIN fs0.files

----------------------------------------------------------------------------
----------------------------------------------------------------------------
\* C3 (as stated): a display call without overrides made after
\* unset_markdown_display_mode cleared the flag does not run in MARKDOWN mode
\* and has no output file.
C3_UnsetReverts ==
    (last.op = "display" /\ last.mode_arg = NoMode /\ last.path_arg = <<>>
        /\ flag_by = "unset") =>
        /\ last.display_mode # MARKDOWN
        /\ last.out_path = <<>>

----------------------------------------------------------------------------
\* C4 (as stated): once set_markdown_display_mode has set the flag to a path,
\* a display call that renders text finds the flagged file and its parent
\* directories created, whatever display calls preceded the setting.
C4_SetCreatesFile ==
    (last.op = "display" /\ flag_by = "set" /\ last.outcome = "returned"
        /\ is_text_mode(last.display_mode)) =>
        LET p == StrToPath(environ[1])
        IN p \in DOMAIN fs.files /\ Ancestors(p) \subseteq fs.dirs

----------------------------------------------------------------------------
\* C5: every file's content is its initial content followed by the strings
\* returned by the display calls that ran in MARKDOWN or PYTHON mode with that
\* file as output path, in call order; nothing is truncated or rewritten.
C5_AppendOnly ==
    /\ \A p \in DOMAIN fs.files :
           fs.files[p] = ContentOf(fs0, p) \o ReturnedFor(log, p)
    /\ \A i \in 1..Len(log) : log[i][1] \in DOMAIN fs.files

\* two calls appended non-empty strings to a file that had content before
C5_Witness ==
    /\ Len(log) = 2 /\ log[1][1] = DocPath /\ log[2][1] = DocPath
    /\ log[1][2] # <<>> /\ log[2][2] # <<>>
    /\ last.op = "display" /\ last.display_mode = PYTHON

----------------------------------------------------------------------------
\* the texts of a content sequence of plain-text items
RECURSIVE TextsOf(_)
TextsOf(content) ==
    IF content = <<>> THEN <<>>
    ELSE (IF Head(content).kind = "text" THEN <<Head(content).text>> ELSE <<>>)
         \o TextsOf(Tail(content))

AllText(content) == \A i \in 1..Len(content) : content[i].kind = "text"

RECURSIVE StripNL(_)
StripNL(s) == IF s # <<>> /\ Head(s) = NL THEN StripNL(Tail(s)) ELSE s

\* res is the texts in order, any two consecutive ones separated by newlines
\* only, at least two of them (a blank line), and nothing but newlines follows
\* the last text
RECURSIVE BlankLineSeparated(_, _)
BlankLineSeparated(texts, res) ==
    IF texts = <<>> THEN StripNL(res) = <<>>
    ELSE /\ IsPrefix(Head(texts), res)
         /\ LET rest == SubSeq(res, Len(Head(texts)) + 1, Len(res))
            IN IF Tail(texts) = <<>> THEN StripNL(rest) = <<>>
               ELSE /\ Len(rest) - Len(StripNL(rest)) >= 2
                    /\ BlankLineSeparated(Tail(texts), StripNL(rest))

----------------------------------------------------------------------------
\* C7 (as stated): a display call that returns in PYTHON mode returns the
\* string that the first PYTHON-mode call with the same content sequence
\* returned, whatever was called in between.
C7_PythonIdempotent ==
    (last.op = "display" /\ last.outcome = "returned"
        /\ last.display_mode = PYTHON /\ py_first # <<>>
        /\ py_first[1].content = last.content) =>
        last.result = py_first[1].result

----------------------------------------------------------------------------
\* the widgets a content sequence emits in STREAMLIT mode
RECURSIVE EmittedBy(_)
EmittedBy(content) ==
    IF content = <<>> THEN <<>>
    ELSE (IF Head(content).kind = "text"
          THEN <<[widget |-> "markdown", arg |-> Head(content).text]>>
          ELSE display_streamlit(Head(content)))
         \o EmittedBy(Tail(content))

----------------------------------------------------------------------------
\* C9: a display call that raises appends nothing to any file, the items
\* rendered before the failing one included: every file keeps its content.
C9_AllOrNothing ==
    [][ (last'.op = "display" /\ last'.outcome = "raised") =>
            /\ NothingWritten(fs, fs')
            /\ (fs' # fs => last'.resolved)
      ]_vars

\* display("a", figure) to an existing output file, the Figure raising after
\* "a" was rendered
C9_Witness ==
    /\ last.op = "display" /\ last.outcome = "raised"
    /\ last.error \in {"ValueError", "KeyError"}
    /\ last.content = <<TA, FIG>> /\ last.md_calls = 1
    /\ last.out_path # <<>> /\ last.out_path[1] \in DOMAIN fs.files

----------------------------------------------------------------------------
\* C10 (as stated): display called with a mode outside DisplayMode raises an
\* invalid-mode error and renders nothing.
C10_InvalidModeRaises ==
    (last.op = "display" /\ last.mode_arg \notin DisplayMode \cup {NoMode}) =>
        /\ last.outcome = "raised"
        /\ last.emitted = <<>>

----------------------------------------------------------------------------
\* C11 (as stated): rendering under PYTHON gives what rendering under MARKDOWN
\* gives, through d.display(mode) and through display(..., mode=mode).
C11_PythonAsMarkdown ==
    /\ (last.op = "MultiDisplayer.display" /\ last.mode_arg = PYTHON) =>
           LET m == MultiDisplayer_display(last.value[1], MARKDOWN, environ)
           IN /\ last.outcome = IF m.raised THEN "raised" ELSE "returned"
              /\ last.result = m.text
    /\ (last.op = "display" /\ last.display_mode = PYTHON
           /\ last.error \notin {"IsADirectoryError", "FileNotFoundError"}) =>
           LET r == render_items(last.content, MARKDOWN, environ, NoRender)
           IN /\ last.outcome = IF r.raised THEN "raised" ELSE "returned"
              /\ ~r.raised => last.result = output_string(r.result)

----------------------------------------------------------------------------
\* s occurs in t as a contiguous part
IsInfix(s, t) ==
    \E i \in 0..(Len(t) - Len(s)) : SubSeq(t, i + 1, i + Len(s)) = s

\* the index of the first token x of a text that holds it
FirstIndex(x, t) == CHOOSE i \in 1..Len(t) : t[i] = x /\ \A j \in 1..(i - 1) : t[j] # x

\* C12: with the flag holding the output path, a rendered Figure is
\* ![caption](path relative to the output file's parent directory){#label},
\* exactly ![Cap](figures/x.png){#fig:1} for out/figures/x.png under out/; a
\* Figure whose path is not under that directory is constructed without error
\* and raises only when it is rendered.
C12_FigureRelative ==
    /\ last.op = "Figure" => last.outcome = "returned"
    /\ (last.op = "display_markdown" /\ last.value[1].kind = "Figure"
           /\ environ # <<>>) =>
           LET f == last.value[1]
               base == Parent(StrToPath(environ[1]))
               res == last.result
           IN IF IsPrefix(base, f.path)
              THEN /\ last.outcome = "returned"
                   /\ SubSeq(res, 1, 3) = <<"![", f.caption, "](">>
                   /\ LET close == FirstIndex(")", res)
                      IN /\ base \o StrToPath(SubSeq(res, 4, close - 1)) = f.path
                         /\ SubSeq(res, close + 1, Len(res)) =
                                IF f.label # "" THEN <<"{#", f.label, "}">> ELSE <<>>
                   /\ (f = FIG /\ environ = <<PathToStr(DocPath)>>) =>
                          res = <<"![", "Cap", "](", "figures", "/", "x.png", ")",
                                  "{#", "fig:1", "}">>
              ELSE last.outcome = "raised" /\ last.error = "ValueError"

\* Figure("test/path.png") was constructed and raised when rendered under out/
C12_Witness ==
    /\ last.op = "display_markdown" /\ last.outcome = "raised"
    /\ last.value[1].kind = "Figure" /\ last.value[1].path = <<"test", "path.png">>
    /\ environ = <<PathToStr(DocPath)>>

----------------------------------------------------------------------------
\* C13 (as stated): Figure.display_markdown called with no output path
\* configured returns text containing ![c](p) and {#l}.
C13_FigureWithoutFlag ==
    (last.op = "display_markdown" /\ last.value[1].kind = "Figure"
        /\ environ = <<>>) =>
        LET f == last.value[1]
        IN /\ last.outcome = "returned"
           /\ IsInfix(<<"![", f.caption, "](">> \o PathToStr(f.path) \o <<")">>,
                      last.result)
           /\ f.label # "" => IsInfix(<<"{#", f.label, "}">>, last.result)

----------------------------------------------------------------------------
\* C14 (as stated): with the flag unset Figure.from_matplotlib raises the
\* no-output-path error and creates no figures directory; with the flag set it
\* saves the plot in the figures directory beside the output file and returns
\* a Figure of the saved file.
C14_FromMatplotlib ==
    last.op = "Figure.from_matplotlib" =>
        IF environ = <<>>
        THEN /\ last.outcome = "raised" /\ last.error = "ValueError"
             /\ \A d \in fs.dirs : d = <<>> \/ d[Len(d)] # "figures"
        ELSE /\ last.outcome = "returned"
             /\ last.ret[1].path \in DOMAIN fs.files
             /\ Parent(last.ret[1].path) =
                    Parent(StrToPath(environ[1])) \o <<"figures">>

----------------------------------------------------------------------------
\* the number of "#" tokens the text starts with
RECURSIVE leading_hash(_)
leading_hash(text) ==
    IF text # <<>> /\ Head(text) = "#" THEN 1 + leading_hash(Tail(text)) ELSE 0

\* C15 (as stated): Title.level is the number of consecutive "#" the text
\* starts with; "## Section" without label has level 2 and renders as
\* "## Section ".
C15_TitleLevel ==
    /\ last.op = "Title.level" => last.ret[1] = leading_hash(last.value[1].text)
    /\ (last.op = "display_markdown" /\ last.value[1].kind = "Title"
           /\ last.value[1].label = "") =>
           last.result = last.value[1].text \o <<" ">>

----------------------------------------------------------------------------
\* the lines of a text
RECURSIVE SplitLines(_)
SplitLines(t) ==
    IF \A i \in 1..Len(t) : t[i] # NL THEN <<t>>
    ELSE LET i == FirstIndex(NL, t)
         IN <<SubSeq(t, 1, i - 1)>> \o SplitLines(SubSeq(t, i + 1, Len(t)))

NonEmptyLines(t) == SelectSeq(SplitLines(t), LAMBDA line : line # <<>>)

\* C16: the non-empty lines of a rendered DocumentConfig are ---, title: T,
\* author: A, then date: D exactly when a date is given, then bibliography:
\* exactly when a bibliography path is given, then ---.
C16_FrontMatter ==
    (last.op = "display_markdown" /\ last.value[1].kind = "DocumentConfig") =>
        LET c == last.value[1]
        IN /\ last.outcome = "returned"
           /\ NonEmptyLines(last.result) =
                  << <<"---">>, <<"title: ", c.title>>, <<"author: ", c.author>> >>
                  \o (IF c.date # "" THEN << <<"date: ", c.date>> >> ELSE <<>>)
                  \o (IF c.bib_path # <<>>
                      THEN << <<"bibliography: ">> \o PathToStr(c.bib_path[1]) >>
                      ELSE <<>>)
                  \o << <<"---">> >>

\* a DocumentConfig with a bibliography and no date was rendered
C16_Witness ==
    /\ last.op = "display_markdown" /\ last.outcome = "returned"
    /\ last.value[1].kind = "DocumentConfig"
    /\ last.value[1].date = "" /\ last.value[1].bib_path # <<>>

----------------------------------------------------------------------------
\* C17 (as stated): a call of display without a mode renders in the mode and
\* to the output path it would have had if no call had passed a mode before.
C17_OverrideIsLocal ==
    (last.op = "display" /\ last.mode_arg = NoMode) =>
        /\ last.config = unoverridden
        /\ last.display_mode = unoverridden[1].mode
        /\ last.out_path = unoverridden[1].output_path

----------------------------------------------------------------------------
\* C18 (as stated): when the flag is unset and detecting the interactive host
\* fails, get_display_config returns PYTHON with no output path.
C18_DetectionNeverRaises ==
    (last.op = "get_display_config" /\ last.detection = "failed") =>
        /\ last.outcome = "returned"
        /\ last.config = <<[mode |-> PYTHON, output_path |-> <<>>]>>

----------------------------------------------------------------------------
\* C19 (as stated): after any sequence of add_child calls, display() returns
\* the system's own title, description, Parameters, Requirements and Functions
\* sections, each header exactly when its field is non-empty, followed, when
\* children were added, by a "## Subsystems" section holding the rendering of
\* every added child once, in the order added.
C19_SubsystemsSection ==
    last.op = "System.display" =>
        LET s == systems[last.ret[1]]
            kids == IF s.children # <<>> THEN s.children[1] ELSE <<>>
        IN /\ last.outcome = "returned"
           /\ last.result =
                  Join(<<NL>>,
                       own_sections(s)
                       \o (IF kids # <<>>
                           THEN << <<NL, "## Subsystems">> >>
                                \o [i \in 1..Len(kids) |->
                                       System_display(systems, kids[i], {}).text]
                           ELSE <<>>))

----------------------------------------------------------------------------
\* s ends t
IsSuffix(s, t) == Len(s) <= Len(t) /\ SubSeq(t, Len(t) - Len(s) + 1, Len(t)) = s

\* C20 (as stated): each run of the markdown command writes what its document
\* rendered to the run's own output path, and to no other path.
C20_EachDocumentToItsPath ==
    (last.op = "markdown" /\ last.outcome = "returned") =>
        /\ last.out_path = last.path_arg
        /\ IsSuffix(last.result, ContentOf(fs, last.path_arg[1]))

----------------------------------------------------------------------------
\* from f to g the file p, and no other, got text appended
AppendedOnlyTo(f, g, p, text) ==
    /\ p \in DOMAIN g.files
    /\ g.files[p] = ContentOf(f, p) \o text
    /\ \A q \in (DOMAIN f.files \cup DOMAIN g.files) \ {p} :
           ContentOf(g, q) = ContentOf(f, q)

\* a display call that returned text in MARKDOWN or PYTHON mode
ReturnedText(call) ==
    /\ call.op = "display" /\ call.outcome = "returned"
    /\ is_text_mode(call.display_mode)

\* C21 (as stated): a display call in MARKDOWN or PYTHON mode with an
\* output_path argument changes the file system at that path only, where it
\* appends the returned string; without argument and without configured path
\* it changes nothing.
C21_OnlyThatPathTouched ==
    [][ ReturnedText(last') =>
            /\ last'.path_arg # <<>> =>
                   /\ AppendedOnlyTo(fs, fs', last'.path_arg[1], last'.result)
                   /\ DOMAIN fs'.files \ {last'.path_arg[1]}
                          = DOMAIN fs.files \ {last'.path_arg[1]}
                   /\ fs'.dirs = fs.dirs
            /\ (last'.path_arg = <<>> /\ last'.config[1].output_path = <<>>) =>
                   fs' = fs
      ]_vars

\* C21: a display call in MARKDOWN or PYTHON mode with an output_path argument
\* appends the returned string to that path and leaves the content of every
\* other file, the configured output file included, as it was; the only other
\* effect is that of the first resolution of the process, which creates the
\* configured output file, empty, with its parent directories, when it does not
\* exist.  Without argument and without configured path no file is written.
C21_ExplicitPathOnly ==
    [][ ReturnedText(last') =>
            /\ last'.path_arg # <<>> =>
                   /\ AppendedOnlyTo(fs, fs', last'.path_arg[1], last'.result)
                   /\ (DOMAIN fs'.files \ {last'.path_arg[1]}
                          # DOMAIN fs.files \ {last'.path_arg[1]}
                       \/ fs'.dirs # fs.dirs) =>
                          /\ last'.resolved
                          /\ last'.config[1].output_path # <<>>
                          /\ DOMAIN fs'.files \ DOMAIN fs.files
                                 \subseteq {last'.path_arg[1],
                                            last'.config[1].output_path[1]}
                          /\ fs'.dirs = fs.dirs
                                 \cup Ancestors(last'.config[1].output_path[1])
            /\ (last'.path_arg = <<>> /\ last'.config[1].output_path = <<>>) =>
                   fs' = fs
      ]_vars

\* display("a", output_path=alt.md) returned while out/doc.md, which holds
\* text, is the configured output file
C21_Witness ==
    /\ ReturnedText(last)
    /\ last.path_arg = <<AltPath>> /\ last.config[1].output_path = <<DocPath>>
    /\ ContentOf(fs, DocPath) = ContentOf(fs0, DocPath)
    /\ ContentOf(fs, DocPath) # <<>>
    /\ ContentOf(fs, AltPath) # <<>>

----------------------------------------------------------------------------
\* every run of the command so far was this run: the same document, as its
\* rendering shows, written to this run's output path
OnlyRerunsSoFar ==
    /\ last.op = "markdown" /\ last.outcome = "returned"
    /\ Len(log) = ncalls
    /\ \A i \in 1..Len(log) : log[i] = <<last.path_arg[1], last.result>>

\* C22 (as stated): after the markdown command was run once or several times
\* for one document and one output path, defaulted or explicit, the output
\* file holds exactly the rendering of one run.
C22_RerunLeavesOneRendering ==
    OnlyRerunsSoFar => ContentOf(fs, last.path_arg[1]) = last.result

----------------------------------------------------------------------------
\* C23 (as stated): System.display returns a string on every structure that
\* add_child calls can build, a system added to itself or to one of its
\* descendants included.
C23_DisplayTerminates ==
    last.op = "System.display" => last.outcome = "returned" /\ last.error = ""

====
